---- MODULE Spec2Model ----
(***************************************************************************)
(* PerformanceCache (seeking-extension-advanced/src/content/main.js): a    *)
(* bounded key/value store with per-entry TTL, approximate memory          *)
(* accounting, scored LRU eviction and memory-pressure eviction.           *)
(*                                                                         *)
(* A JS Map is modelled as a sequence of records in insertion order, the   *)
(* accessOrder array as a sequence of keys, Date.now() as the variable     *)
(* now.  Every public method is a pure operator over the record of the     *)
(* object's fields (the operator has the method's name) and one action     *)
(* that applies it.                                                        *)
(***************************************************************************)
EXTENDS Integers, Sequences, FiniteSets, TLC

\* ---------------------------------------------------------------- bounds
MaxTime == 2
MaxSets == 3
MaxGets == 1
MaxExports == 1
MaxSteps == 4
MaxPersistSets == 2
MaxLiveSets == 2
MaxDomSteps == 5

\* ------------------------------------------------- constructor options
\* the options a PerformanceCache is constructed with, and those of a DOMCache:
\* a DOMCache entry is an object of 58 bytes, so its ceiling is higher
CacheOptions == [maxSize |-> 2, maxMemory |-> 12, defaultTTL |-> 3]
DomCacheOptions == [maxSize |-> 2, maxMemory |-> 200, defaultTTL |-> 1]

\* ------------------------------------------------------------ JS values
\* a JS value is a tagged record; arrays hold a sequence of values
VEmpty == [t |-> "string", len |-> 0]
VNum == [t |-> "number", n |-> 7]
VBig == [t |-> "array", items |-> <<[t |-> "number", n |-> 1], [t |-> "string", len |-> 3]>>]
null == [t |-> "null"]

Values == {VEmpty, VNum, VBig}
\* null is a value like any other to set: getObjectSize gives it 4 bytes
StoredValues == Values \cup {null}
Keys == {"", "a", "b"}

\* an optional argument: <<>> is undefined, <<x>> is the supplied x
NoOptions == [ttl |-> <<>>, priority |-> <<>>, tags |-> <<>>]
Options == {NoOptions, [NoOptions EXCEPT !.ttl = <<1>>]}
\* no options at all, or every option supplied
AllOptions == {NoOptions, [ttl |-> <<1>>, priority |-> <<1>>, tags |-> <<{"t"}>>]}
Tags == {"t"}

\* ------------------------------------------------------------ the document
\* body > P > E, body > F.  Selector "a" matches E and F, "b" matches E, "p"
\* matches P; document order is P, E, F.
Elements == {"P", "E", "F"}
Selectors == {"a", "b", "p"}
Home == [e \in Elements |-> IF e = "E" THEN "P" ELSE "body"]
Matches == [sel \in Selectors |->
              IF sel = "a" THEN <<"E", "F">> ELSE IF sel = "b" THEN <<"E">> ELSE <<"P">>]

VARIABLES
  config,       \* this.maxSize, this.maxMemory, this.defaultTTL
  parentNode,   \* per element: its parent, "body", or "none" when it has none
  observedElements, \* this.observedElements: per element, <<>> or <<selector>>, the
                \* selector its MutationObserver's callback closed over
  observer,     \* this.observer: whether it observes, its undelivered records
                \* (removed nodes) and the removed nodes it still follows
  notified,     \* the elements whose own observer has undelivered records
  now,          \* Date.now()
  cache,        \* this.cache: Map key -> value, in insertion order
  metadata,     \* this.metadata: Map key -> metadata, in insertion order
  accessOrder,  \* this.accessOrder
  memoryUsage,  \* this.memoryUsage
  stats,        \* this.stats
  op,           \* the call that produced this state, with its result
  steps,        \* the number of calls so far, counted where a run is cut short
  snapshot,     \* the object the last export() returned, as its holder sees it
  written,      \* per key: the (time, ttl, value) of the last set with a ttl, until
                \* another call removes the key
  bigSet,       \* some set call had a value of size >= maxMemory
  currentState, \* stateMachine.currentState
  stateHistory, \* stateMachine.stateHistory
  settings,     \* the settings of the ServiceWorkerController
  listening,    \* initialize() has loaded the settings and added the listeners
  transitionLog \* every successful transition since the state machine was made
                \* or last reset

domVars == <<config, parentNode, observedElements, observer, notified>>

workerVars == <<currentState, stateHistory, settings, listening, transitionLog>>

vars == <<now, cache, metadata, accessOrder, memoryUsage, stats, snapshot, op, written,
          bigSet, steps, domVars, workerVars>>

maxSize == config.maxSize
maxMemory == config.maxMemory
defaultTTL == config.defaultTTL

\* ------------------------------------------------------------- JS Map
MapKeys(m) == {m[i].key : i \in 1..Len(m)}
MapHas(m, k) == \E i \in 1..Len(m) : m[i].key = k
MapIndex(m, k) == CHOOSE i \in 1..Len(m) : m[i].key = k
MapGet(m, k) == m[MapIndex(m, k)]
MapDelete(m, k) == SelectSeq(m, LAMBDA e : e.key # k)
\* Map.prototype.set: an existing key keeps its position
MapSet(m, e) ==
  IF MapHas(m, e.key) THEN [m EXCEPT ![MapIndex(m, e.key)] = e] ELSE Append(m, e)

\* --------------------------------------------------------- JS arrays
\* Array.prototype.indexOf: first index, 0 when absent (JS: -1)
indexOf(a, k) ==
  IF \E i \in 1..Len(a) : a[i] = k
  THEN CHOOSE i \in 1..Len(a) : a[i] = k /\ \A j \in 1..(i - 1) : a[j] # k
  ELSE 0
\* Array.prototype.splice(index, 1)
splice1(a, i) == SubSeq(a, 1, i - 1) \o SubSeq(a, i + 1, Len(a))

Min(a, b) == IF a < b THEN a ELSE b

\* `x || d` on an optional number: undefined and 0 are falsy
OrDefault(o, d) == IF o = <<>> \/ o[1] = 0 THEN d ELSE o[1]
\* `x || []` on an optional array: every array is truthy
OrEmpty(o) == IF o = <<>> THEN {} ELSE o[1]

\* --------------------------------------------------------- getObjectSize
\* every selector of the model is a one-character string
StringLength(str) == 1
RECURSIVE getObjectSize(_)
SumSizes(items) ==
  LET RECURSIVE go(_)
      go(i) == IF i > Len(items) THEN 0 ELSE getObjectSize(items[i]) + go(i + 1)
  IN go(1)
getObjectSize(obj) ==
  CASE obj.t = "null" -> 4
    [] obj.t = "boolean" -> 4
    [] obj.t = "number" -> 8
    [] obj.t = "string" -> 2 * obj.len
    [] obj.t = "array" -> SumSizes(obj.items)
    \* a DOM element has no own enumerable property
    [] obj.t = "element" -> 0
    \* {element, selector, timestamp}: 2 bytes per character of each property
    \* name plus the size of each value
    [] obj.t = "object" -> (2 * 7 + getObjectSize(obj.element))
                             + (2 * 8 + 2 * StringLength(obj.selector))
                             + (2 * 9 + 8)

\* ------------------------------------------------------------ the object
\* the fields of the cache, and the snapshot that may share objects with them
This == [cache |-> cache, metadata |-> metadata, accessOrder |-> accessOrder,
         memoryUsage |-> memoryUsage, stats |-> stats, snapshot |-> snapshot]

\* export() puts the metadata objects themselves and this.stats itself into
\* the snapshot.  An entry of the snapshot is live while its metadata object
\* is still the one in this.metadata, and its stats are live while they are
\* still this.stats; a snapshot that went through storage shares nothing.
ZeroStats == [hits |-> 0, misses |-> 0, evictions |-> 0, sets |-> 0, deletes |-> 0,
              memoryPeak |-> 0]
NoSnapshot == [exports |-> 0, entries |-> <<>>, stats |-> ZeroStats, statsLive |-> FALSE,
               timestamp |-> 0]

\* the metadata object of key leaves this.metadata: the snapshot keeps it as it is
Unlink(snap, key) ==
  [snap EXCEPT !.entries = [i \in 1..Len(@) |->
     IF @[i].key = key THEN [@[i] EXCEPT !.live = FALSE] ELSE @[i]]]
UnlinkAll(snap) ==
  [snap EXCEPT !.entries = [i \in 1..Len(@) |-> [@[i] EXCEPT !.live = FALSE]]]
\* the metadata object of key is written in place: a live entry shows it
Mirror(snap, md) ==
  [snap EXCEPT !.entries = [i \in 1..Len(@) |->
     IF @[i].key = md.key /\ @[i].live THEN [@[i] EXCEPT !.metadata = md] ELSE @[i]]]
\* data.stats as import reads it
SnapshotStats(s) == IF s.snapshot.statsLive THEN s.stats ELSE s.snapshot.stats

\* updateAccessOrder that pushes without removing the old position
updateAccessOrderPushOnly(s, key) == [s EXCEPT !.accessOrder = Append(@, key)]

\* updateAccessOrder(key)
updateAccessOrder(s, key) ==
  LET index == indexOf(s.accessOrder, key)
      removed == IF index > 0 THEN splice1(s.accessOrder, index) ELSE s.accessOrder
  IN [s EXCEPT !.accessOrder = Append(removed, key)]

\* delete that does not credit the entry's size
deleteNoCredit(s, key) ==
  IF ~MapHas(s.cache, key) THEN s
  ELSE LET index == indexOf(s.accessOrder, key)
       IN [s EXCEPT !.cache = MapDelete(@, key),
                    !.metadata = MapDelete(@, key),
                    !.accessOrder = IF index > 0 THEN splice1(@, index) ELSE @,
                    !.stats.deletes = @ + 1,
                    !.snapshot = Unlink(@, key)]

\* delete that removes the entry without counting it
deleteNoCount(s, key) ==
  IF ~MapHas(s.cache, key) THEN s
  ELSE LET md == MapGet(s.metadata, key)
           index == indexOf(s.accessOrder, key)
       IN [s EXCEPT !.memoryUsage = @ - md.size,
                    !.cache = MapDelete(@, key),
                    !.metadata = MapDelete(@, key),
                    !.accessOrder = IF index > 0 THEN splice1(@, index) ELSE @,
                    !.snapshot = Unlink(@, key)]

\* delete that counts a call on an absent key as a deletion
deleteCountAbsent(s, key) ==
  IF ~MapHas(s.cache, key) THEN [s EXCEPT !.stats.deletes = @ + 1]
  ELSE LET md == MapGet(s.metadata, key)
           index == indexOf(s.accessOrder, key)
       IN [s EXCEPT !.memoryUsage = @ - md.size,
                    !.cache = MapDelete(@, key),
                    !.metadata = MapDelete(@, key),
                    !.accessOrder = IF index > 0 THEN splice1(@, index) ELSE @,
                    !.stats.deletes = @ + 1,
                    !.snapshot = Unlink(@, key)]

\* delete(key): the object afterwards
delete(s, key) ==
  IF ~MapHas(s.cache, key) THEN s
  ELSE LET md == MapGet(s.metadata, key)
           index == indexOf(s.accessOrder, key)
       IN [s EXCEPT !.memoryUsage = @ - md.size,
                    !.cache = MapDelete(@, key),
                    !.metadata = MapDelete(@, key),
                    !.accessOrder = IF index > 0 THEN splice1(@, index) ELSE @,
                    !.stats.deletes = @ + 1,
                    !.snapshot = Unlink(@, key)]
deleteRet(s, key) == MapHas(s.cache, key)

\* a score is the fraction num/den with den > 0
ScoreLess(x, y) == x.num * y.den < y.num * x.den

\* the score evictLRU gives an entry at time t
lruScore(md, t) ==
  [num |-> md.hits * md.priority * 1000, den |-> (t - md.lastAccess) + 1]

\* the loop of evictLRU: the key it selects, <<>> for null
lruCandidate(s, t) ==
  LET n == Min(10, Len(s.accessOrder))
      RECURSIVE scan(_, _, _)
      scan(i, evictKey, lowest) ==
        IF i > n THEN evictKey
        ELSE LET key == s.accessOrder[i]
                 score == lruScore(MapGet(s.metadata, key), t)
             IN IF evictKey = <<>> \/ ScoreLess(score, lowest)
                THEN scan(i + 1, <<key>>, score)
                ELSE scan(i + 1, evictKey, lowest)
  IN scan(1, <<>>, [num |-> 0, den |-> 1])

\* `if (evictKey)`: null and the empty string are falsy
Truthy(evictKey) == evictKey # <<>> /\ evictKey[1] # ""

\* evictLRU()
evictLRU(s, t) ==
  IF Len(s.accessOrder) = 0 THEN s
  ELSE LET evictKey == lruCandidate(s, t)
       IN IF Truthy(evictKey)
          THEN [delete(s, evictKey[1]) EXCEPT !.stats.evictions = @ + 1]
          ELSE s

\* calculateEvictionScore(metadata) at time t
calculateEvictionScore(md, t) ==
  [num |-> md.hits * md.priority * (md.expiry - t),
   den |-> (t - md.timestamp) * (t - md.lastAccess) * md.size + 1]

\* candidates.sort((a, b) => a.score - b.score): stable, ascending
RECURSIVE insertSorted(_, _)
insertSorted(sorted, c) ==
  IF sorted = <<>> THEN <<c>>
  ELSE IF ScoreLess(c.score, sorted[Len(sorted)].score)
       THEN Append(insertSorted(SubSeq(sorted, 1, Len(sorted) - 1), c), sorted[Len(sorted)])
       ELSE Append(sorted, c)
RECURSIVE sortCandidates(_)
sortCandidates(cs) ==
  IF cs = <<>> THEN <<>>
  ELSE insertSorted(sortCandidates(SubSeq(cs, 1, Len(cs) - 1)), cs[Len(cs)])

\* the candidates of evictByMemory left in the order of the metadata map
memoryCandidatesUnsorted(s, t) ==
  [i \in 1..Len(s.metadata) |->
     [key |-> s.metadata[i].key,
      score |-> calculateEvictionScore(s.metadata[i], t),
      size |-> s.metadata[i].size]]

\* the candidates of evictByMemory collected in access order
memoryCandidatesByRecency(s, t) ==
  sortCandidates([i \in 1..Len(s.accessOrder) |->
     [key |-> s.accessOrder[i],
      score |-> calculateEvictionScore(MapGet(s.metadata, s.accessOrder[i]), t),
      size |-> MapGet(s.metadata, s.accessOrder[i]).size]])

memoryCandidates(s, t) ==
  sortCandidates([i \in 1..Len(s.metadata) |->
     [key |-> s.metadata[i].key,
      score |-> calculateEvictionScore(s.metadata[i], t),
      size |-> s.metadata[i].size]])

\* evictByMemory that evicts the first candidate only
evictByMemoryOnce(s, requiredSize, t) ==
  LET candidates == memoryCandidates(s, t)
  IN IF Len(candidates) = 0 \/ 0 >= requiredSize THEN s
     ELSE [delete(s, candidates[1].key) EXCEPT !.stats.evictions = @ + 1]

\* evictByMemory(requiredSize)
evictByMemory(s, requiredSize, t) ==
  LET candidates == memoryCandidates(s, t)
      RECURSIVE loop(_, _, _)
      loop(i, freedMemory, cur) ==
        IF i > Len(candidates) \/ freedMemory >= requiredSize THEN cur
        ELSE loop(i + 1, freedMemory + candidates[i].size,
                  [delete(cur, candidates[i].key) EXCEPT !.stats.evictions = @ + 1])
  IN loop(1, 0, s)

\* set, "Check memory limit": the object after the first if of set
checkMemoryLimit(s, size, t) ==
  IF s.memoryUsage + size > maxMemory THEN evictByMemory(s, size, t) ELSE s

\* set, "Check size limit": the object after the second if of set
checkSizeLimit(s, t) ==
  IF Len(s.cache) >= maxSize THEN evictLRU(s, t) ELSE s

\* the tail of set: store, touch, account
storeEntry(s, key, value, ttl, priority, tags, size, t) ==
  LET s4 == [s EXCEPT !.cache = MapSet(@, [key |-> key, value |-> value]),
                      !.metadata = MapSet(@, [key |-> key, size |-> size, timestamp |-> t,
                                              expiry |-> t + ttl, hits |-> 0,
                                              priority |-> priority, tags |-> tags,
                                              lastAccess |-> t])]
      s5 == updateAccessOrder(s4, key)
      mem == s5.memoryUsage + size
  IN [s5 EXCEPT !.memoryUsage = mem,
                !.stats.memoryPeak = IF mem > @ THEN mem ELSE @,
                !.stats.sets = @ + 1]

\* set that always uses the default TTL
setDefaultTtl(s, key, value, options, t) ==
  LET size == getObjectSize(value)
      s2 == checkSizeLimit(checkMemoryLimit(s, size, t), t)
      s3 == IF MapHas(s2.cache, key) THEN delete(s2, key) ELSE s2
  IN storeEntry(s3, key, value, defaultTTL, OrDefault(options.priority, 0),
                OrEmpty(options.tags), size, t)

\* set that overwrites a stored key without removing the old entry first
setNoRemove(s, key, value, options, t) ==
  LET size == getObjectSize(value)
      s2 == checkSizeLimit(checkMemoryLimit(s, size, t), t)
  IN storeEntry(s2, key, value, OrDefault(options.ttl, defaultTTL),
                OrDefault(options.priority, 0), OrEmpty(options.tags), size, t)

\* set(key, value, options) at time t: the object afterwards
set(s, key, value, options, t) ==
  LET ttl == OrDefault(options.ttl, defaultTTL)
      priority == OrDefault(options.priority, 0)
      tags == OrEmpty(options.tags)
      size == getObjectSize(value)
      s1 == checkMemoryLimit(s, size, t)
      s2 == checkSizeLimit(s1, t)
      s3 == IF MapHas(s2.cache, key) THEN delete(s2, key) ELSE s2
  IN storeEntry(s3, key, value, ttl, priority, tags, size, t)

setRet(s, key, value, options, t) == TRUE

\* get that reports an expired entry as a miss without deleting it
getNoLazyDelete(s, key, t) ==
  IF ~MapHas(s.cache, key) THEN [s EXCEPT !.stats.misses = @ + 1]
  ELSE LET i == MapIndex(s.metadata, key)
       IN IF t > s.metadata[i].expiry
          THEN [s EXCEPT !.stats.misses = @ + 1]
          ELSE LET md == [s.metadata[i] EXCEPT !.hits = @ + 1, !.lastAccess = t]
               IN [updateAccessOrder([s EXCEPT !.metadata[i] = md,
                                               !.snapshot = Mirror(@, md)], key)
                     EXCEPT !.stats.hits = @ + 1]

\* get whose hit does not touch the access order
getNoTouch(s, key, t) ==
  IF ~MapHas(s.cache, key) THEN [s EXCEPT !.stats.misses = @ + 1]
  ELSE LET i == MapIndex(s.metadata, key)
       IN IF t > s.metadata[i].expiry
          THEN [delete(s, key) EXCEPT !.stats.misses = @ + 1]
          ELSE LET md == [s.metadata[i] EXCEPT !.hits = @ + 1, !.lastAccess = t]
               IN [s EXCEPT !.metadata[i] = md, !.snapshot = Mirror(@, md),
                            !.stats.hits = @ + 1]

\* get(key) at time t: the object afterwards, and the value returned
get(s, key, t) ==
  IF ~MapHas(s.cache, key) THEN [s EXCEPT !.stats.misses = @ + 1]
  ELSE LET i == MapIndex(s.metadata, key)
       IN IF t > s.metadata[i].expiry
          THEN [delete(s, key) EXCEPT !.stats.misses = @ + 1]
          ELSE LET md == [s.metadata[i] EXCEPT !.hits = @ + 1, !.lastAccess = t]
               IN [updateAccessOrder([s EXCEPT !.metadata[i] = md,
                                               !.snapshot = Mirror(@, md)], key)
                     EXCEPT !.stats.hits = @ + 1]
getRet(s, key, t) ==
  IF ~MapHas(s.cache, key) THEN null
  ELSE IF t > MapGet(s.metadata, key).expiry THEN null
  ELSE MapGet(s.cache, key).value

\* clear that resets the counters as well
clearResetStats(s) ==
  [s EXCEPT !.cache = <<>>, !.metadata = <<>>, !.accessOrder = <<>>, !.memoryUsage = 0,
            !.stats = ZeroStats, !.snapshot = UnlinkAll(@)]

\* clear()
clear(s) ==
  [s EXCEPT !.cache = <<>>, !.metadata = <<>>, !.accessOrder = <<>>, !.memoryUsage = 0,
            !.snapshot = UnlinkAll(@)]

\* cleanup that also sweeps the entries whose expiry is now
cleanupAtExpiry(s, t) ==
  LET keysToDelete == SelectSeq(s.metadata, LAMBDA md : t >= md.expiry)
      RECURSIVE loop(_, _)
      loop(i, cur) ==
        IF i > Len(keysToDelete) THEN cur ELSE loop(i + 1, delete(cur, keysToDelete[i].key))
  IN loop(1, s)

\* cleanup that sweeps nothing
cleanupNothing(s, t) == s

\* cleanup() at time t
cleanup(s, t) ==
  LET keysToDelete == SelectSeq(s.metadata, LAMBDA md : t > md.expiry)
      RECURSIVE loop(_, _)
      loop(i, cur) ==
        IF i > Len(keysToDelete) THEN cur ELSE loop(i + 1, delete(cur, keysToDelete[i].key))
  IN loop(1, s)

\* getByTag that only reads
getByTagReadOnly(s, tag, t) == s

\* getByTag(tag) at time t: the object afterwards, and the list returned
getByTag(s, tag, t) ==
  LET keys == [i \in 1..Len(s.metadata) |-> s.metadata[i].key]
      RECURSIVE loop(_, _)
      loop(i, cur) ==
        IF i > Len(keys) THEN cur
        ELSE IF MapHas(cur.metadata, keys[i]) /\ tag \in MapGet(cur.metadata, keys[i]).tags
             THEN loop(i + 1, get(cur, keys[i], t))
             ELSE loop(i + 1, cur)
  IN loop(1, s)
getByTagRet(s, tag, t) ==
  LET keys == [i \in 1..Len(s.metadata) |-> s.metadata[i].key]
      RECURSIVE loop(_, _, _)
      loop(i, cur, results) ==
        IF i > Len(keys) THEN results
        ELSE IF MapHas(cur.metadata, keys[i]) /\ tag \in MapGet(cur.metadata, keys[i]).tags
             THEN LET value == getRet(cur, keys[i], t)
                  IN loop(i + 1, get(cur, keys[i], t),
                          IF value # null
                          THEN Append(results, [key |-> keys[i], value |-> value])
                          ELSE results)
             ELSE loop(i + 1, cur, results)
  IN loop(1, s, <<>>)

\* invalidateByTag(tag): the object afterwards, and the count returned
tagged(s, tag) == SelectSeq(s.metadata, LAMBDA md : tag \in md.tags)
\* invalidateByTag that stops after the first match
invalidateByTagFirst(s, tag) ==
  LET keysToDelete == tagged(s, tag)
  IN IF Len(keysToDelete) = 0 THEN s ELSE delete(s, keysToDelete[1].key)

invalidateByTag(s, tag) ==
  LET keysToDelete == tagged(s, tag)
      RECURSIVE loop(_, _)
      loop(i, cur) ==
        IF i > Len(keysToDelete) THEN cur ELSE loop(i + 1, delete(cur, keysToDelete[i].key))
  IN loop(1, s)
invalidateByTagRet(s, tag) == Len(tagged(s, tag))

\* export() at time t: the snapshot; stored is whether the caller passes it
\* through storage (a copy) before using it
export(s, t, stored) ==
  [exports |-> s.snapshot.exports + 1,
   entries |-> [i \in 1..Len(s.cache) |->
                  [key |-> s.cache[i].key, value |-> s.cache[i].value,
                   metadata |-> MapGet(s.metadata, s.cache[i].key), live |-> ~stored]],
   stats |-> IF stored THEN s.stats ELSE ZeroStats,
   statsLive |-> ~stored,
   timestamp |-> t]

\* the loop body of import without the "Restore hit count" lines
importEntryNoHits(s, e, timestamp, t) ==
  LET timePassed == t - timestamp
      newExpiry == e.metadata.expiry - timePassed
  IN IF newExpiry > t
     THEN set(s, e.key, e.value,
              [ttl |-> <<newExpiry - t>>, priority |-> <<e.metadata.priority>>,
               tags |-> <<e.metadata.tags>>], t)
     ELSE s

\* the loop body of import for one entry of data.entries
importEntry(s, e, timestamp, t) ==
  LET timePassed == t - timestamp
      newExpiry == e.metadata.expiry - timePassed
  IN IF newExpiry > t
     THEN LET s1 == set(s, e.key, e.value,
                        [ttl |-> <<newExpiry - t>>, priority |-> <<e.metadata.priority>>,
                         tags |-> <<e.metadata.tags>>], t)
              i == MapIndex(s1.metadata, e.key)
          IN [s1 EXCEPT !.metadata[i].hits = e.metadata.hits]
     ELSE s

\* import that does not clear the target first
importNoClear(s, t) ==
  LET data == s.snapshot
      RECURSIVE loop(_, _)
      loop(i, cur) ==
        IF i > Len(data.entries) THEN cur
        ELSE loop(i + 1, importEntry(cur, data.entries[i], data.timestamp, t))
      s1 == loop(1, s)
      restored == SnapshotStats(s1)
  IN [s1 EXCEPT !.stats = restored,
                !.snapshot.stats = restored,
                !.snapshot.statsLive = FALSE]

\* import(data) at time t, data being the snapshot
import(s, t) ==
  LET s0 == clear(s)
      data == s0.snapshot
      RECURSIVE loop(_, _)
      loop(i, cur) ==
        IF i > Len(data.entries) THEN cur
        ELSE loop(i + 1, importEntry(cur, data.entries[i], data.timestamp, t))
      s1 == loop(1, s0)
      restored == SnapshotStats(s1)
  IN [s1 EXCEPT !.stats = restored,
                !.snapshot.stats = restored,
                !.snapshot.statsLive = FALSE]

\* ------------------------------------------------------------ DOMCache
\* a DOMCache is a PerformanceCache plus this.observedElements; the operators
\* below take the record d of its fields and the document pn (parentNode)

\* Node.isConnected
RECURSIVE isConnected(_, _)
isConnected(pn, e) ==
  IF pn[e] = "body" THEN TRUE
  ELSE IF pn[e] = "none" THEN FALSE
  ELSE isConnected(pn, pn[e])

\* Node.contains: a is b or an ancestor of b
RECURSIVE contains(_, _, _)
contains(pn, a, b) ==
  IF a = b THEN TRUE
  ELSE IF pn[b] \in Elements THEN contains(pn, a, pn[b]) ELSE FALSE

\* document.querySelector: the first match in document order, <<>> for null
querySelector(pn, selector) ==
  LET found == SelectSeq(Matches[selector], LAMBDA e : isConnected(pn, e))
  IN IF found = <<>> THEN <<>> ELSE <<found[1]>>

\* the object setElement stores
CachedElement(selector, element, t) ==
  [t |-> "object", element |-> [t |-> "element", id |-> element], selector |-> selector,
   timestamp |-> t]

\* observeElement(element, selector)
observeElement(d, element, selector) ==
  IF d.observedElements[element] # <<>> THEN d
  ELSE [d EXCEPT !.observedElements[element] = <<selector>>]

\* setElement(selector, element, options) at time t; element is <<>> for null
setElement(d, selector, element, opts, pn, t) ==
  IF element = <<>> \/ ~isConnected(pn, element[1]) THEN d
  ELSE observeElement(set(d, selector, CachedElement(selector, element[1], t), opts, t),
                      element[1], selector)
setElementRet(d, selector, element, opts, pn, t) ==
  ~(element = <<>> \/ ~isConnected(pn, element[1]))

\* the fresh lookup of getElement
lookupElement(d, selector, pn, t) ==
  LET element == querySelector(pn, selector)
  IN IF element # <<>> THEN setElement(d, selector, element, NoOptions, pn, t) ELSE d

\* getElement(selector) at time t: the object afterwards, and the element
\* returned (<<>> for null)
getElement(d, selector, pn, t) ==
  LET cached == getRet(d, selector, t)
      d1 == get(d, selector, t)
  IN IF cached = null THEN lookupElement(d1, selector, pn, t)
     ELSE IF isConnected(pn, cached.element.id) THEN d1
     ELSE lookupElement(delete(d1, selector), selector, pn, t)
\* the element getElement would return if it trusted every unexpired entry
getElementRetNoCheck(d, selector, pn, t) ==
  LET cached == getRet(d, selector, t)
  IN IF cached = null THEN querySelector(pn, selector) ELSE <<cached.element.id>>

getElementRet(d, selector, pn, t) ==
  LET cached == getRet(d, selector, t)
  IN IF cached = null THEN querySelector(pn, selector)
     ELSE IF isConnected(pn, cached.element.id) THEN <<cached.element.id>>
     ELSE querySelector(pn, selector)

\* checkRemovedElement that matches the removed node itself only
checkRemovedElementSame(d, element, pn) ==
  {d.cache[i].key : i \in {j \in 1..Len(d.cache) : d.cache[j].value.element.id = element}}

\* checkRemovedElement(element, invalidatedSelectors): the selectors it adds
checkRemovedElement(d, element, pn) ==
  {d.cache[i].key : i \in {j \in 1..Len(d.cache) :
      \/ d.cache[j].value.element.id = element
      \/ contains(pn, element, d.cache[j].value.element.id)}}

\* the callback of this.observer for a batch of records
invalidatedSelectors(d, records, pn) ==
  UNION {checkRemovedElement(d, records[i].node, pn) : i \in 1..Len(records)}
observerCallback(d, records, pn) ==
  LET invalidated == invalidatedSelectors(d, records, pn)
      keys == SelectSeq([i \in 1..Len(d.cache) |-> d.cache[i].key],
                        LAMBDA k : k \in invalidated)
      RECURSIVE loop(_, _)
      loop(i, cur) == IF i > Len(keys) THEN cur ELSE loop(i + 1, delete(cur, keys[i]))
  IN loop(1, d)

\* the callback of the observer observeElement made for element
elementCallback(d, element) == delete(d, d.observedElements[element][1])

\* destroy(): the object afterwards; this.observer.disconnect() drops the
\* undelivered records
destroy(d) == clear(d)
disconnect(o) == [observing |-> FALSE, records |-> <<>>, transient |-> {}]

\* --------------------------------------------- ExtensionStateMachine
\* the operators below take the record m of the fields currentState and
\* stateHistory (a controller record has them too); a history record keeps
\* from, to, action and timestamp, the data payload is left out
States == {"idle", "initializing", "detecting", "simulating", "completed", "error",
           "disabled"}
maxHistorySize == 100

\* this.transitions, one triple <<state, action, next state>> per Map entry
Transitions ==
  {<<"idle", "initialize", "initializing">>,
   <<"idle", "detect", "detecting">>,
   <<"idle", "disable", "disabled">>,
   <<"initializing", "ready", "idle">>,
   <<"initializing", "error", "error">>,
   <<"detecting", "found", "simulating">>,
   <<"detecting", "notfound", "idle">>,
   <<"detecting", "error", "error">>,
   <<"simulating", "success", "completed">>,
   <<"simulating", "failure", "error">>,
   <<"completed", "reset", "idle">>,
   <<"completed", "detect", "detecting">>,
   <<"error", "retry", "detecting">>,
   <<"error", "reset", "idle">>,
   <<"disabled", "enable", "idle">>}

\* this.transitions.get(`${state}:${action}`), <<>> for undefined
transitionsGet(state, action) ==
  IF \E tr \in Transitions : tr[1] = state /\ tr[2] = action
  THEN <<(CHOOSE tr \in Transitions : tr[1] = state /\ tr[2] = action)[3]>>
  ELSE <<>>

TransitionRecord(from, to, action, t) ==
  [from |-> from, to |-> to, action |-> action, timestamp |-> t]

\* recordTransition that never trims
recordTransitionNoTrim(m, from, to, action, t) ==
  [m EXCEPT !.stateHistory = Append(@, TransitionRecord(from, to, action, t))]

\* recordTransition(from, to, action, data) at time t
recordTransition(m, from, to, action, t) ==
  LET pushed == Append(m.stateHistory, TransitionRecord(from, to, action, t))
  IN [m EXCEPT !.stateHistory =
        IF Len(pushed) > maxHistorySize THEN Tail(pushed) ELSE pushed]

\* transition that moves without recording
transitionNoRecord(m, action, t) ==
  LET nextState == transitionsGet(m.currentState, action)
  IN IF nextState = <<>> THEN m ELSE [m EXCEPT !.currentState = nextState[1]]

\* transition(action, data) at time t: the object afterwards, and the result
transition(m, action, t) ==
  LET nextState == transitionsGet(m.currentState, action)
  IN IF nextState = <<>> THEN m
     ELSE [recordTransition(m, m.currentState, nextState[1], action, t)
             EXCEPT !.currentState = nextState[1]]
transitionRet(m, action) == transitionsGet(m.currentState, action) # <<>>

\* reset()
reset(m) == [m EXCEPT !.currentState = "idle", !.stateHistory = <<>>]

\* ------------------------------------------- ServiceWorkerController
\* the operators below take the record w of the fields currentState,
\* stateHistory (this.stateMachine) and settings (this.settings)

\* handleContentScriptInitialized(tabId, data)
handleContentScriptInitialized(w, t) == transition(w, "initialize", t)

\* handleDetectionComplete that starts a detection when nobody is logged in
handleDetectionCompleteDetect(w, isLoggedIn, t) ==
  transition(w, IF isLoggedIn THEN "found" ELSE "detect", t)

\* handleDetectionComplete(tabId, data)
handleDetectionComplete(w, isLoggedIn, t) ==
  transition(w, IF isLoggedIn THEN "found" ELSE "notfound", t)

\* handleSimulationComplete(tabId, data)
handleSimulationComplete(w, success, t) ==
  transition(w, IF success THEN "success" ELSE "failure", t)

\* handleToggle(data)
handleToggle(w, enabled, t) ==
  transition([w EXCEPT !.settings.enabled = enabled],
             IF enabled THEN "enable" ELSE "disable", t)

\* handleError(tabId, data)
handleError(w, t) == transition(w, "error", t)

\* the switch of handleMessage; flag is the field of request.data the
\* handler reads (sessionId aside): isLoggedIn, success or enabled
handleMessage(w, request, t) ==
  CASE request.action = "initialized" -> handleContentScriptInitialized(w, t)
    [] request.action = "detection_complete" -> handleDetectionComplete(w, request.flag, t)
    [] request.action = "simulation_complete" -> handleSimulationComplete(w, request.flag, t)
    [] request.action = "toggle" -> handleToggle(w, request.flag, t)
    [] request.action = "error" -> handleError(w, t)
    [] OTHER -> w

\* handleContextMenu(info, tab)
handleContextMenu(w, menuItemId, t) ==
  IF menuItemId = "toggle_extension"
  THEN handleToggle([w EXCEPT !.settings.enabled = ~@], ~w.settings.enabled, t)
  ELSE w

\* the listener setupCommands adds
onCommand(w, command, t) ==
  IF command = "toggle-extension"
  THEN handleToggle([w EXCEPT !.settings.enabled = ~@], ~w.settings.enabled, t)
  ELSE w

\* loadSettings(); stored is <<>> when storage has no 'enabled'
loadSettings(w, stored, t) ==
  LET w1 == [w EXCEPT !.settings.enabled = IF stored = <<>> THEN @ ELSE stored[1]]
  IN IF ~w1.settings.enabled THEN transition(w1, "disable", t) ELSE w1

\* ------------------------------------------------------------- actions
Store(s) ==
  /\ cache' = s.cache
  /\ metadata' = s.metadata
  /\ accessOrder' = s.accessOrder
  /\ memoryUsage' = s.memoryUsage
  /\ stats' = s.stats
  /\ snapshot' = s.snapshot

\* the call that led to a state: method, arguments, returned value, branches taken
Call(name, key, ret, path) ==
  [name |-> name, key |-> key, value |-> null, options |-> NoOptions, ret |-> ret,
   path |-> path]

\* the branches a set call takes
setPath(s, key, value, t) ==
  LET size == getObjectSize(value)
  IN (IF s.memoryUsage + size > maxMemory THEN {"evictByMemory"} ELSE {})
     \cup (IF Len(checkMemoryLimit(s, size, t).cache) >= maxSize THEN {"evictLRU"} ELSE {})
     \cup (IF MapHas(checkSizeLimit(checkMemoryLimit(s, size, t), t).cache, key)
           THEN {"replace"} ELSE {})

\* the branch a get call takes
getPath(s, key, t) ==
  IF ~MapHas(s.cache, key) THEN {"absent"}
  ELSE IF t > MapGet(s.metadata, key).expiry THEN {"expired"} ELSE {"hit"}

\* the branch a cleanup call takes: whether the sweep found an expired entry
cleanupPath(s, t) ==
  IF \E i \in 1..Len(s.metadata) : t > s.metadata[i].expiry THEN {"expired"} ELSE {}

\* a PerformanceCache has no observer
NoObserver == [observing |-> FALSE, records |-> <<>>, transient |-> {}]

\* a key that another call removed forgets the set that stored it
Forget(w, c) == [k \in Keys |-> IF MapHas(c, k) THEN w[k] ELSE <<>>]

\* new ServiceWorkerController(), before initialize() has loaded the settings
NewWorker ==
  /\ currentState = "idle"
  /\ stateHistory = <<>>
  /\ settings = [enabled |-> TRUE]
  /\ listening = FALSE
  /\ transitionLog = <<>>

Init ==
  /\ now = 0
  /\ cache = <<>>
  /\ metadata = <<>>
  /\ accessOrder = <<>>
  /\ memoryUsage = 0
  /\ stats = ZeroStats
  /\ snapshot = NoSnapshot
  /\ op = Call("new", "", null, {})
  /\ written = [k \in Keys |-> <<>>]
  /\ bigSet = FALSE
  /\ steps = 0
  /\ config = CacheOptions
  /\ parentNode = Home
  /\ observedElements = [e \in Elements |-> <<>>]
  /\ observer = NoObserver
  /\ notified = {}
  /\ NewWorker

\* time passes between two calls
Tick ==
  /\ now < MaxTime
  /\ now' = now + 1
  /\ op' = Call("tick", "", null, {})
  /\ UNCHANGED <<cache, metadata, accessOrder, memoryUsage, stats, snapshot, written,
                 bigSet, domVars, workerVars>>

SetCall(key, value, options) ==
  /\ stats.sets < MaxSets
  /\ Store(set(This, key, value, options, now))
  /\ op' = [Call("set", key, setRet(This, key, value, options, now),
                 setPath(This, key, value, now))
              EXCEPT !.value = value, !.options = options]
  /\ written' = [k \in Keys |->
                   IF k = key
                   THEN IF options.ttl # <<>> /\ options.ttl[1] > 0
                        THEN <<[t |-> now, T |-> options.ttl[1], v |-> value]>>
                        ELSE <<>>
                   ELSE Forget(written, cache')[k]]
  /\ bigSet' = (bigSet \/ getObjectSize(value) >= maxMemory)
  /\ UNCHANGED <<now, domVars, workerVars>>

Set == \E key \in Keys, value \in Values, options \in Options : SetCall(key, value, options)

\* set with a priority or tags as well, and of the value null
SetAny ==
  \E key \in Keys, value \in StoredValues, options \in AllOptions :
    SetCall(key, value, options)

GetCall(key) ==
  /\ stats.hits + stats.misses < MaxGets
  /\ Store(get(This, key, now))
  /\ op' = Call("get", key, getRet(This, key, now), getPath(This, key, now))
  /\ UNCHANGED <<now, written, bigSet, domVars, workerVars>>

Get == \E key \in Keys : GetCall(key)

DeleteCall(key) ==
  /\ Store(delete(This, key))
  /\ op' = Call("delete", key, deleteRet(This, key), {})
  /\ written' = Forget(written, cache')
  /\ UNCHANGED <<now, bigSet, domVars, workerVars>>

Delete == \E key \in Keys : DeleteCall(key)

Clear ==
  /\ Store(clear(This))
  /\ op' = Call("clear", "", null, {})
  /\ written' = Forget(written, cache')
  /\ UNCHANGED <<now, bigSet, domVars, workerVars>>

\* cleanup(), called on demand or by the setInterval callback
Cleanup ==
  /\ Store(cleanup(This, now))
  /\ op' = Call("cleanup", "", null, cleanupPath(This, now))
  /\ written' = Forget(written, cache')
  /\ UNCHANGED <<now, bigSet, domVars, workerVars>>

GetByTag ==
  \E tag \in Tags :
    /\ stats.hits + stats.misses < MaxGets
    /\ Store(getByTag(This, tag, now))
    /\ op' = Call("getByTag", tag, getByTagRet(This, tag, now), {})
    /\ written' = Forget(written, cache')
    /\ UNCHANGED <<now, bigSet, domVars, workerVars>>

InvalidateByTag ==
  \E tag \in Tags :
    /\ Store(invalidateByTag(This, tag))
    /\ op' = Call("invalidateByTag", tag, invalidateByTagRet(This, tag), {})
    /\ written' = Forget(written, cache')
    /\ UNCHANGED <<now, bigSet, domVars, workerVars>>

Export ==
  \E stored \in BOOLEAN :
    /\ snapshot.exports < MaxExports
    /\ snapshot' = export(This, now, stored)
    /\ op' = Call("export", "", null, {})
    /\ UNCHANGED <<now, cache, metadata, accessOrder, memoryUsage, stats, written, bigSet,
                   domVars, workerVars>>

Import ==
  /\ snapshot.exports > 0
  /\ Store(import(This, now))
  /\ op' = Call("import", "", null, {})
  /\ written' = [k \in Keys |-> <<>>]
  /\ UNCHANGED <<now, bigSet, domVars, workerVars>>

\* ---- DOMCache and the document
DomThis == [cache |-> cache, metadata |-> metadata, accessOrder |-> accessOrder,
            memoryUsage |-> memoryUsage, stats |-> stats, snapshot |-> snapshot,
            observedElements |-> observedElements]

StoreDom(d) == Store(d) /\ observedElements' = d.observedElements

\* the branch a getElement call takes
getElementPath(d, selector, pn, t) ==
  IF ~MapHas(d.cache, selector) THEN {"absent"}
  ELSE IF t > MapGet(d.metadata, selector).expiry THEN {"expired"}
  ELSE IF isConnected(pn, MapGet(d.cache, selector).value.element.id) THEN {"hit"}
  ELSE {"detached"}

\* new DOMCache() in a document that has a body
InitDom ==
  /\ now = 0
  /\ cache = <<>>
  /\ metadata = <<>>
  /\ accessOrder = <<>>
  /\ memoryUsage = 0
  /\ stats = ZeroStats
  /\ snapshot = NoSnapshot
  /\ op = Call("new", "", null, {})
  /\ written = [k \in Keys |-> <<>>]
  /\ bigSet = FALSE
  /\ steps = 0
  /\ config = DomCacheOptions
  /\ parentNode = Home
  /\ observedElements = [e \in Elements |-> <<>>]
  /\ observer = [observing |-> TRUE, records |-> <<>>, transient |-> {}]
  /\ notified = {}
  /\ NewWorker

GetElement ==
  \E selector \in Selectors :
    /\ StoreDom(getElement(DomThis, selector, parentNode, now))
    /\ op' = Call("getElement", selector, getElementRet(DomThis, selector, parentNode, now),
                   getElementPath(DomThis, selector, parentNode, now))
    /\ UNCHANGED <<now, written, bigSet, workerVars, config, parentNode, observer, notified>>

\* this.observer follows n: n is in the body's subtree, or in the subtree of
\* a removed node whose record is not delivered yet
Followed(n) ==
  \/ n = "body"
  \/ /\ n \in Elements
     /\ \/ isConnected(parentNode, n)
        \/ \E a \in observer.transient : contains(parentNode, a, n)

\* the page removes element from its parent
RemoveNode ==
  \E element \in Elements :
    /\ parentNode[element] # "none"
    /\ parentNode' = [parentNode EXCEPT ![element] = "none"]
    /\ observer' =
         IF observer.observing /\ Followed(parentNode[element])
         THEN [observer EXCEPT
                 !.records = Append(@, [node |-> element,
                                        subtree |-> {e \in Elements :
                                                       contains(parentNode, element, e)}]),
                 !.transient = @ \cup {element}]
         ELSE observer
    \* childList record for the observer of the parent
    /\ notified' = IF /\ parentNode[element] \in Elements
                      /\ observedElements[parentNode[element]] # <<>>
                   THEN notified \cup {parentNode[element]} ELSE notified
    /\ op' = Call("removeChild", element, null, {})
    /\ UNCHANGED <<now, cache, metadata, accessOrder, memoryUsage, stats, snapshot, written,
                   bigSet, workerVars, config, observedElements>>

\* the page puts a removed element back where it was
AppendNode ==
  \E element \in Elements :
    /\ parentNode[element] = "none"
    /\ parentNode' = [parentNode EXCEPT ![element] = Home[element]]
    /\ notified' = IF Home[element] \in Elements /\ observedElements[Home[element]] # <<>>
                   THEN notified \cup {Home[element]} ELSE notified
    /\ op' = Call("appendChild", element, null, {})
    /\ UNCHANGED <<now, cache, metadata, accessOrder, memoryUsage, stats, snapshot, written,
                   bigSet, workerVars, config, observedElements, observer>>

\* the page changes an attribute of an element that has an observer
MutateElement ==
  \E element \in Elements :
    /\ observedElements[element] # <<>>
    /\ notified' = notified \cup {element}
    /\ op' = Call("setAttribute", element, null, {})
    /\ UNCHANGED <<now, cache, metadata, accessOrder, memoryUsage, stats, snapshot, written,
                   bigSet, workerVars, config, parentNode, observedElements, observer>>

\* the callback of this.observer runs on the undelivered records
ObserverCallback ==
  /\ observer.records # <<>>
  /\ StoreDom(observerCallback(DomThis, observer.records, parentNode))
  /\ observer' = [observer EXCEPT !.records = <<>>, !.transient = {}]
  /\ op' = Call("observerCallback", "",
                 Cardinality(invalidatedSelectors(DomThis, observer.records, parentNode)), {})
  /\ UNCHANGED <<now, written, bigSet, workerVars, config, parentNode, notified>>

\* the callback of the observer of one element runs
ElementCallback ==
  \E element \in notified :
    /\ StoreDom(elementCallback(DomThis, element))
    /\ notified' = notified \ {element}
    /\ op' = Call("elementCallback", element, observedElements[element][1], {})
    /\ UNCHANGED <<now, written, bigSet, workerVars, config, parentNode, observer>>

Destroy ==
  /\ StoreDom(destroy(DomThis))
  /\ observer' = disconnect(observer)
  /\ op' = Call("destroy", "", null, {})
  /\ UNCHANGED <<now, written, bigSet, workerVars, config, parentNode, notified>>

\* a DOMCache in a page that changes: runs of at most MaxDomSteps calls and
\* page events, time passing freely
DomStep == steps < MaxDomSteps /\ steps' = steps + 1

NextDom ==
  \/ Tick /\ UNCHANGED steps
  \/ DomStep /\ GetElement
  \/ DomStep /\ RemoveNode
  \/ DomStep /\ AppendNode
  \/ DomStep /\ MutateElement
  \/ DomStep /\ ObserverCallback
  \/ DomStep /\ ElementCallback
  \/ DomStep /\ Destroy

SpecDom == InitDom /\ [][NextDom]_vars

\* the core of the cache: runs of any length within MaxSets, MaxGets, MaxTime
Next ==
  \/ Tick /\ UNCHANGED steps
  \/ Set /\ UNCHANGED steps
  \/ Get /\ UNCHANGED steps
  \/ Delete /\ UNCHANGED steps
  \/ Clear /\ UNCHANGED steps
  \/ Cleanup /\ UNCHANGED steps

Spec == Init /\ [][Next]_vars

\* every method of the cache with every option: runs of at most MaxSteps calls
Step == steps < MaxSteps /\ steps' = steps + 1

NextAll ==
  \/ Step /\ Tick
  \/ Step /\ SetAny
  \/ Step /\ Get
  \/ Step /\ Delete
  \/ Step /\ Clear
  \/ Step /\ Cleanup
  \/ Step /\ GetByTag
  \/ Step /\ InvalidateByTag
  \/ Step /\ Export
  \/ Step /\ Import

SpecAll == Init /\ [][NextAll]_vars

\* persistence: a cache is filled and read, exported, and the snapshot is
\* imported any time later; runs of at most MaxSteps calls, time passing freely
NextPersist ==
  \/ Tick /\ UNCHANGED steps
  \/ Step /\ stats.sets < MaxPersistSets /\ SetAny
  \/ Step /\ Get
  \/ Step /\ Export
  \/ Step /\ Import

SpecPersist == Init /\ [][NextPersist]_vars

\* the lifetime of a cache: the constructor starts setInterval, nothing ever
\* clears it, so the callback that calls cleanup() keeps firing
TimerFires == Cleanup /\ UNCHANGED steps

NextLive ==
  \/ Tick /\ UNCHANGED steps
  \/ stats.sets < MaxLiveSets /\ Set /\ UNCHANGED steps
  \/ Get /\ UNCHANGED steps
  \/ TimerFires

SpecLive == Init /\ [][NextLive]_vars /\ WF_vars(TimerFires)

\* the options of set: each of ttl, priority and tags absent, supplied with
\* the falsy value of its type (0, 0, []) or supplied with another value
MaxOptionSets == 2
EveryOption ==
  [ttl : {<<>>, <<0>>, <<1>>},
   priority : {<<>>, <<0>>, <<2>>},
   tags : {<<>>, <<{}>>, <<{"t"}>>}]

SetWithOptions ==
  \E key \in Keys, options \in EveryOption : SetCall(key, VNum, options)

NextOptions ==
  \/ Tick /\ UNCHANGED steps
  \/ stats.sets < MaxOptionSets /\ SetWithOptions /\ UNCHANGED steps
  \/ Get /\ UNCHANGED steps

SpecOptions == Init /\ [][NextOptions]_vars

\* the order of a round trip: plain sets, reads, an export and imports; runs
\* of at most MaxOrderSteps calls, time passing freely
MaxOrderSteps == 5
OrderStep == steps < MaxOrderSteps /\ steps' = steps + 1

SetPlain == \E key \in Keys, value \in {VEmpty, VNum} : SetCall(key, value, NoOptions)

NextOrder ==
  \/ Tick /\ UNCHANGED steps
  \/ OrderStep /\ SetPlain
  \/ OrderStep /\ Get
  \/ OrderStep /\ Export
  \/ OrderStep /\ Import

SpecOrder == Init /\ [][NextOrder]_vars


\* ---- the state machine and the service worker
cacheVars == <<now, cache, metadata, accessOrder, memoryUsage, stats, snapshot, written,
               bigSet, domVars>>

Machine == [currentState |-> currentState, stateHistory |-> stateHistory]
Worker == [currentState |-> currentState, stateHistory |-> stateHistory,
           settings |-> settings]

\* the successful transition a call made, if it made one, joins the log
StoreWorker(w) ==
  /\ currentState' = w.currentState
  /\ stateHistory' = w.stateHistory
  /\ settings' = w.settings
  /\ transitionLog' = IF w.stateHistory = stateHistory THEN transitionLog
                      ELSE Append(transitionLog, w.stateHistory[Len(w.stateHistory)])

Actions == {"initialize", "detect", "disable", "ready", "error", "found", "notfound",
            "success", "failure", "reset", "retry", "enable", "unknown"}
MaxTransitions == 102

TransitionCall(action) ==
  /\ Len(transitionLog) < MaxTransitions
  /\ currentState' = transition(Machine, action, now).currentState
  /\ stateHistory' = transition(Machine, action, now).stateHistory
  /\ transitionLog' =
       IF transitionRet(Machine, action)
       THEN Append(transitionLog,
                   TransitionRecord(currentState, transitionsGet(currentState, action)[1],
                                    action, now))
       ELSE transitionLog
  /\ op' = Call("transition", action, transitionRet(Machine, action), {})
  /\ UNCHANGED <<cacheVars, settings, listening>>

Transition == \E action \in Actions : TransitionCall(action)

\* the two actions of a toggle
ToggleTransition == \E action \in {"enable", "disable"} : TransitionCall(action)

Reset ==
  /\ currentState' = reset(Machine).currentState
  /\ stateHistory' = reset(Machine).stateHistory
  /\ transitionLog' = <<>>
  /\ op' = Call("reset", "", null, {})
  /\ UNCHANGED <<cacheVars, settings, listening>>

\* a state machine on its own, every action: runs of at most MaxMachineSteps calls
MaxMachineSteps == 5
MachineStep == steps < MaxMachineSteps /\ steps' = steps + 1

NextMachine ==
  \/ MachineStep /\ Transition
  \/ MachineStep /\ Reset

SpecMachine == Init /\ [][NextMachine]_vars

\* a state machine on its own, switched off and on: runs long enough to fill
\* the history (at most MaxTransitions transitions between two resets)
NextHistory ==
  \/ ToggleTransition /\ UNCHANGED steps
  \/ Reset /\ UNCHANGED steps

SpecHistory == Init /\ [][NextHistory]_vars

\* initialize(): the settings are loaded, then the listeners are added
LoadSettings ==
  \E stored \in {<<>>, <<TRUE>>, <<FALSE>>} :
    /\ ~listening
    /\ StoreWorker(loadSettings(Worker, stored, now))
    /\ listening' = TRUE
    /\ op' = Call("loadSettings", "", null, {})
    /\ UNCHANGED cacheVars

MessageActions == {"initialized", "detection_complete", "simulation_complete", "toggle",
                   "error", "get_state"}
Requests == [action : MessageActions, flag : BOOLEAN]

\* chrome.runtime.onMessage
HandleMessage ==
  \E request \in Requests :
    /\ listening
    /\ StoreWorker(handleMessage(Worker, request, now))
    /\ op' = [Call(request.action, "", null, {})
                EXCEPT !.value = [t |-> "boolean", b |-> request.flag]]
    /\ UNCHANGED <<cacheVars, listening>>

\* chrome.contextMenus.onClicked
HandleContextMenu ==
  \E menuItemId \in {"toggle_extension", "manual_simulation"} :
    /\ listening
    /\ StoreWorker(handleContextMenu(Worker, menuItemId, now))
    /\ op' = Call("contextMenu", menuItemId, null, {})
    /\ UNCHANGED <<cacheVars, listening>>

\* chrome.commands.onCommand
OnCommand ==
  \E command \in {"toggle-extension", "simulate-enter"} :
    /\ listening
    /\ StoreWorker(onCommand(Worker, command, now))
    /\ op' = Call("command", command, null, {})
    /\ UNCHANGED <<cacheVars, listening>>

\* the service worker: runs of at most MaxWorkerSteps events
MaxWorkerSteps == 6
WorkerStep == steps < MaxWorkerSteps /\ steps' = steps + 1

NextWorker ==
  \/ WorkerStep /\ LoadSettings
  \/ WorkerStep /\ HandleMessage
  \/ WorkerStep /\ HandleContextMenu
  \/ WorkerStep /\ OnCommand

SpecWorker == Init /\ [][NextWorker]_vars

\* ------------------------------------------------- notions of the claims
\* the sum of the recorded sizes of the stored entries
RECURSIVE SumSize(_)
SumSize(m) == IF m = <<>> THEN 0 ELSE m[1].size + SumSize(Tail(m))

SeqSet(a) == {a[i] : i \in 1..Len(a)}
Without(a, k) == SelectSeq(a, LAMBDA x : x # k)
Occurrences(m, k) == Cardinality({i \in 1..Len(m) : m[i].key = k})

\* C1: each time a set call has completed the cache holds at most maxSize
\* entries.
C1_CapacityInvariant == op.name = "set" => Len(cache) <= maxSize

\* C2: as long as every value passed to set is smaller than maxMemory,
\* memoryUsage <= maxMemory each time a set call has completed.
C2_MemoryInvariant == (op.name = "set" /\ ~bigSet) => memoryUsage <= maxMemory

\* a set under memory pressure that evicted and inserted within the ceiling
C2_Witness ==
  /\ op.name = "set"
  /\ "evictByMemory" \in op.path
  /\ ~bigSet
  /\ stats.evictions >= 1
  /\ memoryUsage > 0

\* C3: memoryUsage equals the sum of the recorded sizes of the stored entries.
C3_MemoryAccounting == memoryUsage = SumSize(metadata)

\* an import has stored entries again after an entry was removed and credited
C3_Witness ==
  /\ op.name = "import"
  /\ stats.deletes >= 1
  /\ Len(metadata) >= 1
  /\ memoryUsage > 0

\* C4: the entry mapping, the metadata mapping and the access order hold the
\* same keys, and the access order holds no key twice.
C4_AccessOrderConsistent ==
  /\ MapKeys(cache) = SeqSet(accessOrder)
  /\ MapKeys(metadata) = SeqSet(accessOrder)
  /\ Cardinality(SeqSet(accessOrder)) = Len(accessOrder)

\* a get hit has moved a key of a two-entry cache to the end
C4_Witness ==
  /\ op.name = "get"
  /\ "hit" \in op.path
  /\ Len(accessOrder) = 2
  /\ accessOrder[2] = op.key
  /\ cache[1].key = op.key

\* C5: for a key stored by set(k, v, {ttl: T}) at time t with T > 0 and not
\* removed or overwritten by another call since, get(k) before t + T returns
\* v and get(k) after t + T returns null.
C5_TtlCorrect ==
  [][(op'.name = "get" /\ written[op'.key] # <<>>) =>
        LET w == written[op'.key][1]
        IN /\ now < w.t + w.T => (op'.ret = w.v /\ MapHas(cache', op'.key))
           /\ now > w.t + w.T => op'.ret = null]_vars

\* a get after t + T of a key stored with a ttl, which found it expired
C5_Witness ==
  /\ op.name = "get"
  /\ "expired" \in op.path
  /\ written[op.key] # <<>>
  /\ now > written[op.key][1].t + written[op.key][1].T
  /\ op.ret = null

\* C6: get(k) on a stored key whose expiry has passed returns null, removes
\* k from the mappings and the access order, credits exactly its size, adds
\* one miss and no hit.
C6_LazyExpiry ==
  [][LET key == op'.key
      IN (op'.name = "get" /\ MapHas(cache, key) /\ now > MapGet(metadata, key).expiry) =>
           /\ op'.ret = null
           /\ ~MapHas(cache', key)
           /\ ~MapHas(metadata', key)
           /\ key \notin SeqSet(accessOrder')
           /\ memoryUsage' = memoryUsage - MapGet(metadata, key).size
           /\ stats'.misses = stats.misses + 1
           /\ stats'.hits = stats.hits]_vars

\* a get found its key expired while another entry stays stored
C6_Witness ==
  /\ op.name = "get"
  /\ "expired" \in op.path
  /\ ~MapHas(cache, op.key)
  /\ Len(cache) >= 1
  /\ stats.misses >= 1

\* C7: a get(k) hit returns the stored value, adds one to the entry's hits
\* and to stats.hits, moves k to the end of the access order and leaves the
\* key set, the values, memoryUsage, the other entries' metadata and the
\* relative order of the other keys unchanged.
C7_GetHit ==
  [][LET key == op'.key
      IN (op'.name = "get" /\ MapHas(cache, key) /\ now <= MapGet(metadata, key).expiry) =>
           /\ op'.ret = MapGet(cache, key).value
           /\ MapGet(metadata', key).hits = MapGet(metadata, key).hits + 1
           /\ stats'.hits = stats.hits + 1
           /\ accessOrder'[Len(accessOrder')] = key
           /\ cache' = cache
           /\ memoryUsage' = memoryUsage
           /\ MapKeys(metadata') = MapKeys(metadata)
           /\ \A k \in MapKeys(metadata) \ {key} : MapGet(metadata', k) = MapGet(metadata, k)
           /\ Without(accessOrder', key) = Without(accessOrder, key)]_vars

\* a get hit on the least-recently-used key of a two-entry cache
C7_Witness ==
  /\ op.name = "get"
  /\ "hit" \in op.path
  /\ Len(accessOrder) = 2
  /\ accessOrder[2] = op.key
  /\ MapGet(metadata, op.key).hits >= 1
  /\ metadata[1].key = op.key

\* C8: set of a new key into a cache that holds maxSize entries, none of the
\* scanned entries scoring lower than the least-recently-touched one, evicts
\* exactly the least-recently-touched key (the claim is about capacity
\* eviction: the new value fits into maxMemory without memory eviction).
C8_LruEvictionOrder ==
  [][(/\ op'.name = "set"
       /\ "evictByMemory" \notin op'.path
       /\ Len(cache) = maxSize
       /\ ~MapHas(cache, op'.key)
       /\ \A i \in 1..Min(10, Len(accessOrder)) :
            ~ScoreLess(lruScore(MapGet(metadata, accessOrder[i]), now),
                       lruScore(MapGet(metadata, accessOrder[1]), now)))
      => MapKeys(cache') = (MapKeys(cache) \ {accessOrder[1]}) \cup {op'.key}]_vars

\* C9: every set(k, v) returns true and a get(k) right after it returns v;
\* when v alone is larger than maxMemory every other entry has been evicted.
C9_SetNeverRejects ==
  [][op'.name = "set" =>
        /\ op'.ret = TRUE
        /\ getRet([cache |-> cache', metadata |-> metadata', accessOrder |-> accessOrder',
                   memoryUsage |-> memoryUsage', stats |-> stats'], op'.key, now') = op'.value
        /\ getObjectSize(op'.value) > maxMemory => MapKeys(cache') = {op'.key}]_vars

\* C10: set(k, v2) on a stored key leaves exactly one entry for k, holding
\* v2 with hits 0, k last in the access order, and memoryUsage counting the
\* other stored entries and the new size only.
C10_Replace ==
  [][LET key == op'.key
      IN (op'.name = "set" /\ MapHas(cache, key)) =>
           /\ Occurrences(cache', key) = 1
           /\ Occurrences(metadata', key) = 1
           /\ Len(Without(accessOrder', key)) = Len(accessOrder') - 1
           /\ MapGet(cache', key).value = op'.value
           /\ MapGet(metadata', key).hits = 0
           /\ accessOrder'[Len(accessOrder')] = key
           /\ memoryUsage' = SumSize(SelectSeq(metadata', LAMBDA md : md.key # key))
                               + getObjectSize(op'.value)]_vars

\* a set has replaced the entry of a key that had been read
C10_Witness ==
  /\ op.name = "set"
  /\ "replace" \in op.path
  /\ stats.hits >= 1
  /\ Len(cache) = 2
  /\ memoryUsage > 0

\* the fields of the cache after a step
ThisAfter == [cache |-> cache', metadata |-> metadata', accessOrder |-> accessOrder',
              memoryUsage |-> memoryUsage', stats |-> stats', snapshot |-> snapshot']

\* C11: delete(k) on an absent key returns false and leaves the key set,
\* memoryUsage, the access order and stats.deletes unchanged; on a stored
\* key it returns true, removes exactly k, credits exactly its size, and a
\* second delete(k) right after returns false and changes nothing.
C11_DeleteIdempotent ==
  [][LET key == op'.key
      IN op'.name = "delete" =>
           IF MapHas(cache, key)
           THEN /\ op'.ret = TRUE
                /\ MapKeys(cache') = MapKeys(cache) \ {key}
                /\ MapKeys(metadata') = MapKeys(metadata) \ {key}
                /\ \A k \in MapKeys(cache') :
                      /\ MapGet(cache', k) = MapGet(cache, k)
                      /\ MapGet(metadata', k) = MapGet(metadata, k)
                /\ accessOrder' = Without(accessOrder, key)
                /\ memoryUsage' = memoryUsage - MapGet(metadata, key).size
                /\ stats'.deletes = stats.deletes + 1
                /\ deleteRet(ThisAfter, key) = FALSE
                /\ delete(ThisAfter, key) = ThisAfter
           ELSE /\ op'.ret = FALSE
                /\ cache' = cache
                /\ metadata' = metadata
                /\ memoryUsage' = memoryUsage
                /\ accessOrder' = accessOrder
                /\ stats'.deletes = stats.deletes]_vars

\* a delete has removed one entry of two and credited its size
C11_Witness ==
  /\ op.name = "delete"
  /\ op.ret = TRUE
  /\ Len(cache) = 1
  /\ ~MapHas(cache, op.key)
  /\ stats.sets = 2
  /\ stats.deletes = 1
  /\ stats.memoryPeak > memoryUsage

\* the keys of the stored entries whose tags include tag
TaggedKeys(m, tag) == {m[i].key : i \in {j \in 1..Len(m) : tag \in m[j].tags}}

\* C12: invalidateByTag(t) removes exactly the stored entries whose tags
\* include t, returns their number, the cache shrinks by that number, and
\* the other entries keep their value, metadata and relative access order.
C12_InvalidateByTag ==
  [][op'.name = "invalidateByTag" =>
        LET gone == TaggedKeys(metadata, op'.key)
        IN /\ MapKeys(cache') = MapKeys(cache) \ gone
           /\ MapKeys(metadata') = MapKeys(metadata) \ gone
           /\ op'.ret = Cardinality(gone)
           /\ Len(cache') = Len(cache) - op'.ret
           /\ \A k \in MapKeys(cache') :
                 /\ MapGet(cache', k) = MapGet(cache, k)
                 /\ MapGet(metadata', k) = MapGet(metadata, k)
           /\ accessOrder' = SelectSeq(accessOrder, LAMBDA k : k \notin gone)]_vars

\* an invalidateByTag has removed the tagged entry and left the untagged one
C12_Witness ==
  /\ op.name = "invalidateByTag"
  /\ op.ret = 1
  /\ Len(cache) = 1
  /\ TaggedKeys(metadata, op.key) = {}
  /\ stats.sets = 2
  /\ stats.deletes = 1

\* C13: getByTag(t) returns exactly the key/value pairs of the stored entries
\* whose tags include t and whose expiry has not passed, each once.
C13_GetByTag ==
  [][op'.name = "getByTag" =>
        LET live == {k \in TaggedKeys(metadata, op'.key) : ~(now > MapGet(metadata, k).expiry)}
        IN /\ SeqSet(op'.ret) = {[key |-> k, value |-> MapGet(cache, k).value] : k \in live}
           /\ Len(op'.ret) = Cardinality(live)]_vars

\* ---- export / import round trips
\* the time between the export that made the snapshot and now
Elapsed == now - snapshot.timestamp
\* the snapshot fits a cache of this configuration without any eviction
NoPressure ==
  /\ Len(snapshot.entries) <= maxSize
  /\ SumSize([i \in 1..Len(snapshot.entries) |-> snapshot.entries[i].metadata]) <= maxMemory
SnapshotKeys == {snapshot.entries[i].key : i \in 1..Len(snapshot.entries)}

\* C14: a snapshot imported (no capacity or memory pressure) D after its
\* export, D smaller than the remaining TTL every entry had at export,
\* leaves exactly the exported keys stored, each with its exported value.
C14_RoundTripKeys ==
  [][(/\ op'.name = "import"
       /\ NoPressure
       /\ \A i \in 1..Len(snapshot.entries) :
            Elapsed < snapshot.entries[i].metadata.expiry - snapshot.timestamp)
      => /\ MapKeys(cache') = SnapshotKeys
         /\ \A i \in 1..Len(snapshot.entries) :
              MapGet(cache', snapshot.entries[i].key).value = snapshot.entries[i].value]_vars

\* C15: an entry imported D after its export expires at the same absolute
\* time as the exported entry (its remaining TTL is R - D).
C15_RoundTripExpiry ==
  [][op'.name = "import" =>
        \A i \in 1..Len(snapshot.entries) :
          LET e == snapshot.entries[i]
          IN MapHas(metadata', e.key) => MapGet(metadata', e.key).expiry = e.metadata.expiry]_vars

\* C16: importing (no capacity or memory pressure) a snapshot that holds an
\* entry whose expiry is at or before the import time leaves every such
\* entry out and stores every other entry of the snapshot.
C16_ImportSkipsExpired ==
  [][(/\ op'.name = "import"
       /\ NoPressure
       /\ \E i \in 1..Len(snapshot.entries) : snapshot.entries[i].metadata.expiry <= now)
      => \A i \in 1..Len(snapshot.entries) :
           LET e == snapshot.entries[i]
           IN IF e.metadata.expiry <= now
              THEN ~MapHas(cache', e.key)
              ELSE MapHas(cache', e.key) /\ MapGet(cache', e.key).value = e.value]_vars

\* C17: after import every imported entry has the hits its snapshot entry
\* records.
C17_ImportRestoresHits ==
  [][op'.name = "import" =>
        \A i \in 1..Len(snapshot.entries) :
          LET e == snapshot.entries[i]
          IN MapHas(metadata', e.key) => MapGet(metadata', e.key).hits = e.metadata.hits]_vars

\* an import has stored an entry again with the hit its snapshot records
C17_Witness ==
  /\ op.name = "import"
  /\ \E i \in 1..Len(snapshot.entries) :
       /\ snapshot.entries[i].metadata.hits = 1
       /\ MapHas(metadata, snapshot.entries[i].key)
       /\ MapGet(metadata, snapshot.entries[i].key).hits = 1
       /\ MapGet(metadata, snapshot.entries[i].key).timestamp = now

\* C18: clear() leaves no entry, an empty access order and memoryUsage 0,
\* and leaves hits, misses, evictions, sets, deletes and memoryPeak unchanged.
C18_Clear ==
  [][op'.name = "clear" =>
        /\ cache' = <<>>
        /\ metadata' = <<>>
        /\ accessOrder' = <<>>
        /\ memoryUsage' = 0
        /\ stats' = stats]_vars

\* a clear has emptied a cache that held entries; the counters still show them
C18_Witness ==
  /\ op.name = "clear"
  /\ Len(cache) = 0
  /\ memoryUsage = 0
  /\ stats.sets = 2
  /\ stats.deletes = 0
  /\ stats.memoryPeak > 0

\* the keys of the stored entries whose expiry has passed at time t
ExpiredKeys(m, t) == {m[i].key : i \in {j \in 1..Len(m) : t > m[j].expiry}}

\* C19: cleanup(), on demand or from the timer, removes exactly the entries
\* whose expiry has passed and leaves every other entry's value, metadata
\* and relative access order unchanged.
C19_Cleanup ==
  [][op'.name = "cleanup" =>
        LET gone == ExpiredKeys(metadata, now)
        IN /\ MapKeys(cache') = MapKeys(cache) \ gone
           /\ MapKeys(metadata') = MapKeys(metadata) \ gone
           /\ \A k \in MapKeys(cache') :
                 /\ MapGet(cache', k) = MapGet(cache, k)
                 /\ MapGet(metadata', k) = MapGet(metadata, k)
           /\ accessOrder' = SelectSeq(accessOrder, LAMBDA k : k \notin gone)]_vars

\* a cleanup has swept an expired entry and kept one that had not expired
C19_Witness ==
  /\ op.name = "cleanup"
  /\ "expired" \in op.path
  /\ Len(cache) = 1
  /\ stats.sets = 2
  /\ stats.deletes = 1

\* C20: every stored entry whose expiry has passed is eventually removed,
\* whether or not its key is read again, the timer's callback being fair.
C20_EventualRemoval ==
  \A k \in Keys :
    (MapHas(metadata, k) /\ now > MapGet(metadata, k).expiry)
      ~> ~(MapHas(metadata, k) /\ now > MapGet(metadata, k).expiry)

\* the sweep has removed an expired entry that no get ever asked for
C20_Witness ==
  /\ op.name = "cleanup"
  /\ "expired" \in op.path
  /\ stats.hits + stats.misses = 0
  /\ stats.deletes >= 1
  /\ ExpiredKeys(metadata, now) = {}

\* ---- the DOM-element cache
\* the element the entry of selector references
ElementOf(c, selector) == MapGet(c, selector).value.element.id

\* C21: getElement(selector) never returns a detached element: it returns
\* the cached element only if the entry is stored, unexpired and the element
\* connected; otherwise it returns the result of a fresh lookup, which is
\* then the cached element, or null with no entry left for the selector.
C21_GetElement ==
  [][op'.name = "getElement" =>
        LET selector == op'.key
            usable == /\ MapHas(cache, selector)
                      /\ ~(now > MapGet(metadata, selector).expiry)
                      /\ isConnected(parentNode, ElementOf(cache, selector))
        IN /\ op'.ret # <<>> => isConnected(parentNode', op'.ret[1])
           /\ IF usable
              THEN /\ op'.ret = <<ElementOf(cache, selector)>>
                   /\ MapGet(cache', selector) = MapGet(cache, selector)
              ELSE /\ op'.ret = querySelector(parentNode, selector)
                   /\ op'.ret = <<>> => ~MapHas(cache', selector)
                   /\ op'.ret # <<>> =>
                         (MapHas(cache', selector) /\ ElementOf(cache', selector) = op'.ret[1])]_vars

\* a getElement found its cached element detached and cached another match
C21_Witness ==
  /\ op.name = "getElement"
  /\ "detached" \in op.path
  /\ op.ret = <<"F">>
  /\ MapHas(cache, "a")
  /\ ElementOf(cache, "a") = "F"
  /\ ~isConnected(parentNode, "E")

\* the elements that were in a removed subtree when its root was removed
RemovedElements(records) == UNION {records[i].subtree : i \in 1..Len(records)}

\* C22: when the callback of the structural observer has processed a batch
\* of removals, every entry that referenced a removed node or an element
\* inside one is gone, and every other entry is kept as it was.
C22_StructuralInvalidation ==
  [][op'.name = "observerCallback" =>
        \A selector \in MapKeys(cache) :
          IF ElementOf(cache, selector) \in RemovedElements(observer.records)
          THEN ~MapHas(cache', selector)
          ELSE /\ MapHas(cache', selector)
               /\ MapGet(cache', selector) = MapGet(cache, selector)
               /\ MapGet(metadata', selector) = MapGet(metadata, selector)]_vars

\* the callback has deleted the entry of a removed element and kept the
\* entry of an element outside the removed subtree
C22_Witness ==
  /\ op.name = "observerCallback"
  /\ op.ret = 1
  /\ Len(cache) = 1
  /\ stats.deletes = 1
  /\ isConnected(parentNode, ElementOf(cache, cache[1].key))

\* C23: when the callback of an element's own observer runs after a
\* mutation of the element, every entry that references the element, under
\* whatever selector, is deleted.
C23_ElementInvalidation ==
  [][op'.name = "elementCallback" =>
        \A selector \in MapKeys(cache) :
          ElementOf(cache, selector) = op'.key => ~MapHas(cache', selector)]_vars

\* C24: after destroy() the cache is empty and every observer the cache
\* created, the structural one and the one of each element, is disconnected;
\* a destroy() right after it changes nothing.
C24_Destroy ==
  [][op'.name = "destroy" =>
        /\ cache' = <<>>
        /\ metadata' = <<>>
        /\ accessOrder' = <<>>
        /\ ~observer'.observing
        /\ \A element \in Elements : observedElements'[element] = <<>>
        /\ destroy([DomThis EXCEPT !.cache = cache', !.metadata = metadata',
                                   !.accessOrder = accessOrder', !.memoryUsage = memoryUsage',
                                   !.stats = stats', !.snapshot = snapshot',
                                   !.observedElements = observedElements'])
             = [DomThis EXCEPT !.cache = cache', !.metadata = metadata',
                               !.accessOrder = accessOrder', !.memoryUsage = memoryUsage',
                               !.stats = stats', !.snapshot = snapshot',
                               !.observedElements = observedElements']
        /\ disconnect(observer') = observer']_vars

\* ---- set: capacity, options, memory pressure
\* C25: set(k, v) on a stored key, the cache holding exactly maxSize entries
\* and the value fitting into maxMemory without memory eviction, evicts no
\* entry: the key set after the call is the key set before it.
C25_NoEvictionOnReplace ==
  [][(/\ op'.name = "set"
       /\ MapHas(cache, op'.key)
       /\ Len(cache) = maxSize
       /\ "evictByMemory" \notin op'.path)
      => /\ MapKeys(cache') = MapKeys(cache)
         /\ stats'.evictions = stats.evictions]_vars

\* C26: set honours every supplied option value: the new entry expires at
\* now + ttl for every supplied ttl, ttl = 0 included, and at now + defaultTTL
\* only when no ttl is supplied; priority and tags default (0, no tag) only
\* when absent; hitCount starts at 0.
C26_SetHonoursOptions ==
  [][op'.name = "set"
      => LET md == MapGet(metadata', op'.key)
             o == op'.options
         IN /\ md.expiry = now + (IF o.ttl = <<>> THEN defaultTTL ELSE o.ttl[1])
            /\ md.priority = (IF o.priority = <<>> THEN 0 ELSE o.priority[1])
            /\ md.tags = (IF o.tags = <<>> THEN {} ELSE o.tags[1])
            /\ md.hits = 0]_vars

\* the recorded sizes of the stored entries whose key is in K, summed
SizeOfKeys(K) == SumSize(SelectSeq(metadata, LAMBDA md : md.key \in K))
\* the keys a call removed
EvictedKeys == MapKeys(cache) \ MapKeys(cache')

\* C27: a set of a new key under memory pressure (and with no capacity
\* eviction) evicts no more than the insert needs: the evictions did not go on
\* after the pending insert fitted, so at least one evicted entry was removed
\* while memoryUsage + size(v) still exceeded maxMemory given the other
\* evictions.
C27_MemoryEvictionMinimal ==
  [][(/\ op'.name = "set"
       /\ "evictByMemory" \in op'.path
       /\ "evictLRU" \notin op'.path
       /\ ~MapHas(cache, op'.key)
       /\ EvictedKeys # {})
      => \E x \in EvictedKeys :
           memoryUsage - SizeOfKeys(EvictedKeys \ {x}) + getObjectSize(op'.value)
             > maxMemory]_vars

\* the position, in the first min(10, size) keys of the access order, of the
\* entry with the lowest capacity score, the oldest winning ties
LruVictimIndex ==
  LET n == Min(10, Len(accessOrder))
      score(i) == lruScore(MapGet(metadata, accessOrder[i]), now)
  IN CHOOSE i \in 1..n :
       /\ \A j \in 1..n : ~ScoreLess(score(j), score(i))
       /\ \A j \in 1..(i - 1) : ScoreLess(score(i), score(j))

\* C28: a set that reaches capacity eviction (no memory eviction before it)
\* evicts exactly one entry, the one with the lowest score
\* hits * priority * 1000 / (age since last access + 1) among the first
\* min(10, size) keys of the access order, the oldest winning ties; no key
\* beyond the first 10 positions is removed.
C28_LruWindow ==
  [][(/\ op'.name = "set"
       /\ "evictLRU" \in op'.path
       /\ "evictByMemory" \notin op'.path
       /\ accessOrder # <<>>)
      => /\ MapKeys(cache') = (MapKeys(cache) \ {accessOrder[LruVictimIndex]}) \cup {op'.key}
         /\ stats'.evictions = stats.evictions + 1
         /\ \A i \in 11..Len(accessOrder) :
              accessOrder[i] # op'.key => MapHas(cache', accessOrder[i])]_vars

\* the keys the memory-pressure eviction of a set removed, when no capacity
\* eviction followed: the keys that are gone, and the key of the call when it
\* was stored and the call found nothing to replace
MemoryEvicted ==
  EvictedKeys \cup
    (IF MapHas(cache, op'.key) /\ "replace" \notin op'.path THEN {op'.key} ELSE {})

\* C29: a set under memory pressure (and with no capacity eviction) evicts in
\* ascending score order: every evicted entry had a score
\* hits * priority * remainingTtl / (age * sinceLastAccess * size + 1), taken
\* at the start of the scan, less than or equal to that of every kept entry.
C29_MemoryEvictionOrder ==
  [][(/\ op'.name = "set"
       /\ "evictByMemory" \in op'.path
       /\ "evictLRU" \notin op'.path)
      => \A e \in MemoryEvicted, k \in MapKeys(cache) \ MemoryEvicted :
           ~ScoreLess(calculateEvictionScore(MapGet(metadata, k), now),
                      calculateEvictionScore(MapGet(metadata, e), now))]_vars

\* a memory-pressure eviction that removed one entry and kept an entry whose
\* score is positive
C29_Witness ==
  /\ op.name = "set"
  /\ "evictByMemory" \in op.path
  /\ stats.evictions = 1
  /\ stats.deletes = 1
  /\ Len(cache) = 2
  /\ \E i \in 1..Len(metadata) :
       /\ metadata[i].key # op.key
       /\ metadata[i].hits >= 1
       /\ metadata[i].priority >= 1
       /\ metadata[i].expiry > now

\* C30: whatever the keys are, the empty string included, a set of a new key
\* into a cache that holds maxSize entries removes the entry capacity
\* eviction selects, and the cache ends with at most maxSize entries.
C30_EmptyKeyEvicted ==
  [][(/\ op'.name = "set"
       /\ "evictByMemory" \notin op'.path
       /\ Len(cache) = maxSize
       /\ ~MapHas(cache, op'.key))
      => /\ ~MapHas(cache', accessOrder[LruVictimIndex])
         /\ Len(cache') <= maxSize]_vars

\* ---- per-element invalidation, counters, getByTag, ties, import order
\* C31: the callback of an element's own observer, run after a mutation of
\* element E, deletes only an entry whose cached element is E: an entry that
\* holds another element, under whatever selector, stays.
C31_ElementInvalidationPrecise ==
  [][op'.name = "elementCallback" =>
        \A selector \in MapKeys(cache) :
          ~MapHas(cache', selector) => ElementOf(cache, selector) = op'.key]_vars

\* C32: every call other than clear() and import() changes the number of
\* stored entries by exactly the sets it counted minus the deletes it
\* counted, and counts no more evictions than deletes; so in a run without
\* clear() and import() the number of entries is stats.sets - stats.deletes
\* and stats.evictions <= stats.deletes.
C32_CounterRelation ==
  [][op'.name \notin {"clear", "import"}
      => /\ Len(cache') - Len(cache)
              = (stats'.sets - stats.sets) - (stats'.deletes - stats.deletes)
         /\ stats'.evictions - stats.evictions <= stats'.deletes - stats.deletes
         /\ stats'.evictions <= stats'.deletes]_vars

\* a set has just evicted under memory pressure, after removals of another
\* kind, and the counters give the number of entries
C32_Witness ==
  /\ op.name = "set"
  /\ "evictByMemory" \in op.path
  /\ stats.evictions >= 1
  /\ stats.deletes > stats.evictions
  /\ Len(cache) = stats.sets - stats.deletes

\* C33: getByTag(t) is a get on every stored key tagged t: each returned
\* entry has one more hit, is touched now and stands, in the access order,
\* behind every key that is not tagged t; stats.hits grows by at least the
\* number of returned entries; each expired entry tagged t is deleted and
\* counted as a miss; the entries not tagged t, and their order, stay.
C33_GetByTagEffects ==
  [][op'.name = "getByTag" =>
        LET matching == TaggedKeys(metadata, op'.key)
            expired == {k \in matching : now > MapGet(metadata, k).expiry}
            others == MapKeys(cache) \ matching
            returned == {op'.ret[i].key : i \in 1..Len(op'.ret)}
        IN /\ \A k \in returned :
                /\ k \in matching \ expired
                /\ MapGet(metadata', k).hits = MapGet(metadata, k).hits + 1
                /\ MapGet(metadata', k).lastAccess = now
                /\ \A u \in others : indexOf(accessOrder', u) < indexOf(accessOrder', k)
           /\ stats'.hits >= stats.hits + Len(op'.ret)
           /\ \A k \in expired : ~MapHas(cache', k)
           /\ stats'.misses = stats.misses + Cardinality(expired)
           /\ stats'.deletes = stats.deletes + Cardinality(expired)
           /\ \A u \in others :
                /\ MapHas(cache', u)
                /\ MapGet(cache', u) = MapGet(cache, u)
                /\ MapGet(metadata', u) = MapGet(metadata, u)
           /\ SelectSeq(accessOrder', LAMBDA k : k \in others)
                = SelectSeq(accessOrder, LAMBDA k : k \in others)]_vars

\* getByTag has returned the entry that was set first, which now stands
\* behind an untagged entry set after it
C33_Witness ==
  /\ op.name = "getByTag"
  /\ Len(op.ret) = 1
  /\ Len(cache) = 2
  /\ metadata[1].key = op.ret[1].key
  /\ metadata[1].hits = 1
  /\ op.key \notin metadata[2].tags
  /\ accessOrder = <<metadata[2].key, metadata[1].key>>
  /\ stats.hits = 1

\* every stored entry has the same memory-pressure score
ScoresTie ==
  \A i, j \in 1..Len(metadata) :
    ~ScoreLess(calculateEvictionScore(metadata[i], now),
               calculateEvictionScore(metadata[j], now))

\* C34: when all memory-pressure scores tie, a set under memory pressure (and
\* with no capacity eviction) evicts the entries in the order of their most
\* recent set: the evicted keys are a prefix of the metadata map's order,
\* wherever get has moved them in the access order.
C34_MemoryTies ==
  [][(/\ op'.name = "set"
       /\ "evictByMemory" \in op'.path
       /\ "evictLRU" \notin op'.path
       /\ ScoresTie)
      => \A i, j \in 1..Len(metadata) :
           (i < j /\ metadata[j].key \in MemoryEvicted)
             => metadata[i].key \in MemoryEvicted]_vars

\* a set evicted, under memory pressure, the one entry that had been read,
\* and kept an entry that never was
C34_Witness ==
  /\ op.name = "set"
  /\ op.path = {"evictByMemory"}
  /\ stats.hits = 1
  /\ stats.evictions = 1
  /\ stats.deletes = 1
  /\ Len(cache) = 2
  /\ \A i \in 1..Len(metadata) : metadata[i].hits = 0

\* the keys of the snapshot, in snapshot order
SnapshotOrder == [i \in 1..Len(snapshot.entries) |-> snapshot.entries[i].key]

\* C35: export lists the entries in the order of their most recent set;
\* import clears the target and re-inserts in snapshot order: afterwards
\* every stored key is a key of the snapshot, and the access order is the
\* snapshot order of the stored keys, whatever get had made most recently
\* used in the exporter.
C35_ImportOrder ==
  [][/\ op'.name = "export"
        => [i \in 1..Len(snapshot'.entries) |-> snapshot'.entries[i].key]
             = [i \in 1..Len(metadata) |-> metadata[i].key]
     /\ op'.name = "import"
        => /\ MapKeys(cache') \subseteq SeqSet(SnapshotOrder)
           /\ accessOrder' = SelectSeq(SnapshotOrder, LAMBDA k : MapHas(cache', k))]_vars

\* an import has restored two entries, the first of which had been read in
\* the exporter after the second was set: it is not the most recently used
C35_Witness ==
  /\ op.name = "import"
  /\ Len(snapshot.entries) = 2
  /\ snapshot.entries[1].metadata.hits = 1
  /\ snapshot.entries[1].metadata.lastAccess > snapshot.entries[2].metadata.timestamp
  /\ accessOrder = SnapshotOrder

\* ---- the state machine and the service worker
\* C36: transition(action) on a pair (currentState, action) of the transition
\* table returns true, moves to exactly the mapped state and appends one
\* history record; on every other pair it returns false and leaves
\* currentState and the history as they were; currentState is always one of
\* the seven declared states.
C36_Transition ==
  [][op'.name = "transition" =>
        /\ IF \E tr \in Transitions : tr[1] = currentState /\ tr[2] = op'.key
           THEN /\ op'.ret = TRUE
                /\ <<currentState, op'.key, currentState'>> \in Transitions
                /\ stateHistory' # <<>>
                /\ stateHistory'[Len(stateHistory')]
                     = TransitionRecord(currentState, currentState', op'.key, now)
                /\ Len(stateHistory) < maxHistorySize
                     => stateHistory' = Append(stateHistory, stateHistory'[Len(stateHistory')])
           ELSE /\ op'.ret = FALSE
                /\ currentState' = currentState
                /\ stateHistory' = stateHistory
        /\ currentState' \in States]_vars

\* a transition has just succeeded and reached the state completed
C36_Witness ==
  /\ op.name = "transition"
  /\ op.ret = TRUE
  /\ currentState = "completed"
  /\ Len(stateHistory) = 3

\* the last n elements of a sequence
LastN(a, n) == SubSeq(a, Len(a) - n + 1, Len(a))

\* C37: the history holds at most 100 records; they are the most recent
\* successful transitions since the last reset, in order; each record's to is
\* the next record's from; the last record's to is currentState.
C37_History ==
  /\ Len(stateHistory) <= maxHistorySize
  /\ stateHistory = LastN(transitionLog, Min(maxHistorySize, Len(transitionLog)))
  /\ \A i \in 1..(Len(stateHistory) - 1) : stateHistory[i].to = stateHistory[i + 1].from
  /\ stateHistory # <<>> => stateHistory[Len(stateHistory)].to = currentState

\* more than 100 transitions have succeeded since the last reset and the
\* history is full
C37_Witness ==
  /\ Len(transitionLog) > maxHistorySize
  /\ Len(stateHistory) = maxHistorySize
  /\ op.name = "transition"
  /\ op.ret = TRUE

\* handleToggle has just completed: a toggle message, the context menu's
\* toggle item or the keyboard command
ToggleCompleted ==
  \/ op.name = "toggle"
  \/ op.name = "contextMenu" /\ op.key = "toggle_extension"
  \/ op.name = "command" /\ op.key = "toggle-extension"

\* C38: under every sequence of events the service worker handles, the
\* state machine is in idle, initializing, error or disabled; a
\* detection_complete or simulation_complete message never changes the
\* state; once the machine has left idle through initialize (it is in
\* initializing or error) it never returns to idle.
C38_WorkerStates ==
  [][/\ currentState \in {"idle", "initializing", "error", "disabled"}
     /\ currentState' \in {"idle", "initializing", "error", "disabled"}
     /\ op'.name \in {"detection_complete", "simulation_complete"}
          => currentState' = currentState /\ stateHistory' = stateHistory
     /\ currentState \in {"initializing", "error"}
          => currentState' \in {"initializing", "error"}]_vars

\* a simulation_complete message has been handled after the machine went
\* from idle through initializing to error
C38_Witness ==
  /\ op.name = "simulation_complete"
  /\ currentState = "error"
  /\ Len(stateHistory) = 2

====
